---- MODULE Spec2Model ----
(***************************************************************************)
(* Model of libap's lock file protocol (src/libap/lockfile.c):             *)
(* ap_lockfile_create / lockfile_try_create / lockfile_check_valid /       *)
(* tmplock_filename / ap_lockfile_release, run by independent processes    *)
(* against one directory of one filesystem.  Every system call of the code *)
(* is one atomic step; the code between two system calls belongs to the    *)
(* step of the earlier call.                                               *)
(*                                                                         *)
(* Every file of the model is a regular file of the one filesystem, so     *)
(* st_rdev is 0 throughout and the code's (st_rdev, st_ino) comparison is  *)
(* decided by st_ino.  The retries arguments tried are small; the          *)
(* conversion of an unsigned retries >= INT_MAX to int is not modelled.    *)
(* malloc() is taken to succeed.                                           *)
(*                                                                         *)
(* Five specifications share the actions:                                  *)
(*   Spec       one caller against every kind of lock and environment, or  *)
(*              two callers racing; lock files shorter than the read       *)
(*              buffer of lockfile_check_valid                             *)
(*   SpecNames  two callers with pids of five to seven digits              *)
(*   SpecLong   one call with many retries while outside processes take    *)
(*              and drop the lock                                          *)
(*   SpecAgain  two callers that take the lock again after releasing it    *)
(*   SpecCheck  lockfile_check_valid alone, lock files of 16 bytes and     *)
(*              more included                                              *)
(***************************************************************************)
EXTENDS Integers, Sequences, FiniteSets, TLC

VARIABLES
    fs,       \* the directory: file name -> inode number
    inodes,   \* inode number -> [pid, size, mtime, atime, removable]
    clock,    \* wall clock, seconds
    env,      \* what the environment may do in this run (see Envs)
    atimeUpd, \* TRUE: the mount updates atime on read; FALSE: noatime
    pc,       \* per process: where it is inside ap_lockfile_create
    loc,      \* per process: the local variables of lockfile_try_create
    calls     \* per process: the calls that have returned, <<op, rc, lockfile>>

vars == <<fs, inodes, clock, env, atimeUpd, pc, loc, calls>>

----------------------------------------------------------------------------
(* Program constants                                                       *)

LOCK_ERR_TMPLOCK    == 2
LOCK_ERR_TMPWRITE   == 3
LOCK_ERR_MAXRETRIES == 4
LOCK_ERR_GENERIC    == 5
LOCK_ERR_RMSTALE    == 8
UNLOCK_ERR_GENERIC  == -1

TMPLOCK_EXT         == <<".", "l", "k">>
TMPLOCK_EXT_SIZE    == Len(TMPLOCK_EXT)
TMPLOCK_PID_SIZE    == 5
TMPLOCK_TIME_SIZE   == 1
TMPLOCK_SUFFIX_SIZE == TMPLOCK_EXT_SIZE + TMPLOCK_PID_SIZE + TMPLOCK_TIME_SIZE

BUF_SIZE      == 16    \* char buf[16] of lockfile_check_valid
PIDBUF_SIZE   == 40    \* char pidbuf[40] of lockfile_try_create
VALID_AGE     == 300   \* a lock without pid is valid while newer than this
SLEEP_STEP    == 5
SLEEP_MAX     == 60
STATFAIL_MAX  == 5

----------------------------------------------------------------------------
(* Bounds and the environment of the model                                 *)

MaxRetries  == 2    \* largest retries argument of a lone caller
MaxCreate   == 1    \* ap_lockfile_create calls of a lone caller
MaxRelease  == 2    \* ap_lockfile_release calls per process
LongRetries == 14   \* the retries argument of a long call
MaxAgain    == 2    \* ap_lockfile_create calls of a process that races
Clock0      == 1000 \* wall clock when the run starts

Procs == {101, 202}         \* pids of the processes that run the protocol
\* the process that runs alone in a lone run
First == CHOOSE p \in Procs : \A q \in Procs : p <= q

\* pids as wide as the platform assigns them (pid_max is 4194304 at most),
\* and a five-digit pid next to them
WideProcs == {12345, 123456, 4194301, 4194302}

\* kill(pid, 0) for the pids of outside processes
Outside == (300 :> "ok") @@ (301 :> "EPERM") @@ (302 :> "ESRCH") @@ (303 :> "EINVAL")
LivePid    == CHOOSE q \in DOMAIN Outside : Outside[q] = "ok"
ForeignPid == CHOOSE q \in DOMAIN Outside : Outside[q] = "EPERM"
DeadPid    == CHOOSE q \in DOMAIN Outside : Outside[q] = "ESRCH"
OddPid     == CHOOSE q \in DOMAIN Outside : Outside[q] = "EINVAL"

\* age of the lock found at the start: every age for a lock whose age may
\* decide, two of them for a lock whose pid decides
Ages(q) == IF q = 0 \/ Outside[q] = "EINVAL" THEN {10, 299, 300, 301} ELSE {10, 301}

NoFile   == <<"NULL">>                 \* a NULL lockfile argument
LockFile == <<"l", "o", "c", "k">>     \* the lock path

\* "sound": nothing goes wrong; "nolink": link() may fail on a free name;
\* "nospace": open() and write() of the temp file may fail; "thirdparty":
\* somebody outside the protocol may delete temp files; "leftover": a dead
\* process with a recycled pid left its temp file behind
Envs == {"sound", "nolink", "nospace", "thirdparty", "leftover"}

----------------------------------------------------------------------------
(* The filesystem                                                          *)

Range(f) == {f[x] : x \in DOMAIN f}

Min(a, b) == IF a < b THEN a ELSE b

\* lowest inode number not in use (the filesystem reuses freed numbers)
FreeIno(f) ==
    CHOOSE n \in 1..(Cardinality(DOMAIN f) + 1) :
        /\ n \notin Range(f)
        /\ \A m \in 1..(n - 1) : m \in Range(f)

\* the inode table once the inodes without a name are freed
Prune(f, tbl) == [n \in Range(f) |-> tbl[n]]

EmptyFn == [x \in {} |-> 0]

RemoveName(f, name) == [nm \in DOMAIN f \ {name} |-> f[nm]]

\* struct stat of a name that exists
Stat(f, tbl, name) ==
    [st_ino   |-> f[name],
     st_rdev  |-> 0,
     st_mtime |-> tbl[f[name]].mtime,
     st_atime |-> tbl[f[name]].atime]

NoStat == [st_ino |-> 0, st_rdev |-> 0, st_mtime |-> 0, st_atime |-> 0]

\* unlink(2): "ok", "ENOENT", or "EPERM" for an entry the caller may not remove
UnlinkErr(f, tbl, name) ==
    IF name \notin DOMAIN f THEN "ENOENT"
    ELSE IF ~tbl[f[name]].removable THEN "EPERM"
    ELSE "ok"

UnlinkFs(f, tbl, name) ==
    IF UnlinkErr(f, tbl, name) = "ok" THEN RemoveName(f, name) ELSE f

\* kill(pid, 0): the processes that run the protocol are alive
Kill(pid) ==
    IF pid \in DOMAIN pc THEN "ok"
    ELSE IF pid \in DOMAIN Outside THEN Outside[pid]
    ELSE "ESRCH"

----------------------------------------------------------------------------
(* tmplock_filename                                                        *)

HexChars == <<"0", "1", "2", "3", "4", "5", "6", "7",
              "8", "9", "a", "b", "c", "d", "e", "f">>

RECURSIVE Dec(_)
\* the decimal digits of n >= 0, "%d"
Dec(n) == IF n < 10 THEN <<HexChars[n + 1]>>
          ELSE Dec(n \div 10) \o <<HexChars[(n % 10) + 1]>>

RECURSIVE ZeroPad(_, _)
\* "%0*d": zeros on the left up to width w, never a cut
ZeroPad(s, w) == IF Len(s) >= w THEN s ELSE ZeroPad(<<"0">> \o s, w)

\* the name "%s%s%0*d%0*x" composes
tmplock_composed(lockfile, mypid, time) ==
    lockfile \o TMPLOCK_EXT
             \o ZeroPad(Dec(mypid), TMPLOCK_PID_SIZE)
             \o ZeroPad(<<HexChars[(time % 16) + 1]>>, TMPLOCK_TIME_SIZE)

\* what snprintf leaves in a buffer of bufsize bytes: the composed name cut
\* to bufsize - 1 characters (r, the length of the composed name, is >= 0)
tmplock_filename(lockfile, bufsize, mypid, time) ==
    LET full == tmplock_composed(lockfile, mypid, time)
    IN  SubSeq(full, 1, Min(Len(full), bufsize - 1))

\* the buffer ap_lockfile_create allocates
tmplock_bufsize(lockfile) == Len(lockfile) + TMPLOCK_SUFFIX_SIZE + 1

\* the temp name of process p for a call made at time t
TmpName(p, t) == tmplock_filename(LockFile, tmplock_bufsize(LockFile), p, t)

\* snprintf(pidbuf, sizeof(pidbuf), "%d\n", pid)
PidLen(pid) == Len(Dec(pid)) + 1

----------------------------------------------------------------------------
(* Initial states                                                          *)

Inode(pid, size, time, removable) ==
    [pid |-> pid, size |-> size, mtime |-> time, atime |-> time,
     removable |-> removable]

\* the locks a run may find in place: a pid record, an empty file, or a
\* file of four bytes that are no number
Lock0s ==
    UNION {{Inode(q, IF q = 0 THEN 0 ELSE PidLen(q), Clock0 - a, r) :
               a \in Ages(q), r \in BOOLEAN} : q \in {0} \cup DOMAIN Outside}
    \cup {Inode(0, 4, Clock0 - a, TRUE) : a \in {10, 301}}

LocInit ==
    [tmplock |-> << >>, retries |-> 0, tries |-> 0, i |-> 0, sleeptime |-> 0,
     statfailed |-> 0, dontsleep |-> 1, st1 |-> NoStat, st |-> NoStat,
     now |-> 0, pid |-> 0, rc |-> 0,
     len |-> 0,
     \* history of the call: link() calls made, whether the call created its
     \* temp file, the lock files (none or one) in place when it began,
     \* sleep() calls made, whether a link() of the call put its file at the
     \* lock path, whether lockfile_check_valid ever said false, and how the
     \* last iteration ended ("start": there was none yet, "failed": the
     \* lstat of the lock failed, "valid", "removed": the lock was found
     \* invalid and unlinked, "gone": found invalid and gone before the unlink)
     iters |-> 0, created |-> FALSE, found |-> {},
     sleeps |-> 0, linked |-> FALSE, sawinvalid |-> FALSE, last |-> "start"]

\* the directory and the inode table holding the lock lk and, under
\* "leftover", the temp file a dead process with pid p left behind
Disk(locks, e, p) ==
    LET f0 == IF locks = {} THEN EmptyFn ELSE (LockFile :> 1)
        t0 == IF locks = {} THEN EmptyFn ELSE (1 :> (CHOOSE lk \in locks : TRUE))
        n  == FreeIno(f0)
    IN  IF e = "leftover"
        THEN [fs |-> f0 @@ (TmpName(p, Clock0) :> n),
              inodes |-> t0 @@ (n :> Inode(p, PidLen(p), Clock0 - 16, TRUE))]
        ELSE [fs |-> f0, inodes |-> t0]

\* a lone run: one process, any lock, any environment; the mount updates
\* atime or not where nothing else goes wrong
InitLone ==
    /\ env \in Envs
    /\ atimeUpd \in IF env = "sound" THEN BOOLEAN ELSE {FALSE}
    /\ pc = [p \in Procs |-> IF p = First THEN "idle" ELSE "off"]
    /\ \E locks \in {{}} \cup {{lk} : lk \in Lock0s} :
         /\ fs = Disk(locks, env, First).fs
         /\ inodes = Disk(locks, env, First).inodes

\* a race: every process runs, on a sound noatime filesystem, starting with
\* no lock or with the lock of a dead owner
InitRace ==
    /\ env = "sound"
    /\ atimeUpd = FALSE
    /\ pc = [p \in Procs |-> "idle"]
    /\ \E locks \in {{}, {Inode(DeadPid, PidLen(DeadPid), Clock0 - 10, TRUE)}} :
         /\ fs = Disk(locks, env, First).fs
         /\ inodes = Disk(locks, env, First).inodes

Init ==
    /\ clock = Clock0
    /\ loc = [p \in Procs |-> LocInit]
    /\ calls = [p \in Procs |-> << >>]
    /\ (InitLone \/ InitRace)

Lone == Cardinality({p \in DOMAIN pc : pc[p] # "off"}) = 1

----------------------------------------------------------------------------
(* What the calls of a process have returned so far                        *)

Count(p, op) == Cardinality({k \in DOMAIN calls[p] : calls[p][k][1] = op})

LastCall(p) == calls[p][Len(calls[p])]

\* p was told it has the lock and has not called release since
Holds(p) ==
    \E k \in DOMAIN calls[p] :
        /\ calls[p][k][1] = "create" /\ calls[p][k][2] = 0
        /\ \A j \in (k + 1)..Len(calls[p]) : calls[p][j][1] # "release"

\* the call returns r
Return(p, op, r, lockfile) ==
    /\ pc' = [pc EXCEPT ![p] = "idle"]
    /\ calls' = [calls EXCEPT ![p] = Append(@, <<op, r, lockfile>>)]

Goto(p, label) ==
    /\ pc' = [pc EXCEPT ![p] = label]
    /\ UNCHANGED calls

----------------------------------------------------------------------------
(* ap_lockfile_create up to the open() of lockfile_try_create              *)

\* the slip of letting retries = 0 through
ArgsOkAnyRetries(lockfile, retries) == lockfile # NoFile

\* the argument check of ap_lockfile_create
ArgsOk(lockfile, retries) == lockfile # NoFile /\ retries # 0

\* the slip of taking retries for the number of tries
TriesTotal(retries) == retries

\* int tries = retries + 1
Tries(retries) == retries + 1

\* the retries arguments tried: processes that race retry at most once
RetryArgs == IF Lone THEN 0..MaxRetries ELSE {0, 1}

\* open(tmplock_buf, O_WRONLY | O_CREAT | O_EXCL | O_CLOEXEC): the outcomes
OpenOutcomes(f, name, e) ==
    IF name \in DOMAIN f THEN {"EEXIST"}
    ELSE IF e = "nospace" THEN {"ok", "ENOSPC"}
    ELSE {"ok"}

\* ap_lockfile_create(lockfile, p, retries) up to the open()
CreateCall(p, lockfile, retries) ==
    /\ pc[p] = "idle"
    /\ UNCHANGED <<clock, env, atimeUpd>>
    /\ LET tmp == tmplock_filename(lockfile, tmplock_bufsize(lockfile), p, clock)
           l0  == [LocInit EXCEPT !.retries = retries,
                                  !.found = {inodes[fs[nm]] : nm \in DOMAIN fs \cap {LockFile}}]
       IN  IF ~ArgsOk(lockfile, retries) \/ PidLen(p) > PIDBUF_SIZE - 1
           THEN /\ Return(p, "create", LOCK_ERR_GENERIC, lockfile)
                /\ loc' = [loc EXCEPT ![p] = l0]
                /\ UNCHANGED <<fs, inodes>>
           ELSE \E r \in OpenOutcomes(fs, tmp, env) :
                  IF r # "ok"
                  THEN /\ Return(p, "create", LOCK_ERR_TMPLOCK, lockfile)
                       /\ loc' = [loc EXCEPT ![p] = [l0 EXCEPT !.tmplock = tmp]]
                       /\ UNCHANGED <<fs, inodes>>
                  ELSE /\ fs' = fs @@ (tmp :> FreeIno(fs))
                       /\ inodes' = inodes @@ (FreeIno(fs) :> Inode(0, 0, clock, TRUE))
                       /\ loc' = [loc EXCEPT ![p] =
                                    [l0 EXCEPT !.tmplock = tmp,
                                               !.tries = Tries(retries),
                                               !.created = TRUE]]
                       /\ Goto(p, "write")

Create(p) ==
    /\ Count(p, "create") < (IF Lone THEN MaxCreate ELSE 1)
    /\ \E lockfile \in {NoFile, LockFile}, retries \in RetryArgs :
         CreateCall(p, lockfile, retries)

----------------------------------------------------------------------------
(* write() and close() of the temp file                                    *)

WriteOutcomes(e) == IF e = "nospace" THEN {"ok", "short"} ELSE {"ok"}

\* the slip of returning without the unlink
WriteFailedNoUnlink(p) ==
    /\ loc' = [loc EXCEPT ![p].rc = LOCK_ERR_TMPWRITE]
    /\ Return(p, "create", LOCK_ERR_TMPWRITE, LockFile)

\* written != pidlen: unlink the temp file, then return
WriteFailed(p) ==
    /\ loc' = [loc EXCEPT ![p].rc = LOCK_ERR_TMPWRITE]
    /\ Goto(p, "cleanup")

WriteTmp(p) ==
    /\ pc[p] = "write"
    /\ UNCHANGED <<fs, clock, env, atimeUpd>>
    /\ LET tmp == loc[p].tmplock IN
       \E r \in WriteOutcomes(env) :
         IF r = "ok"
         THEN /\ inodes' = IF tmp \in DOMAIN fs
                           THEN [inodes EXCEPT ![fs[tmp]] =
                                    Inode(p, PidLen(p), clock, TRUE)]
                           ELSE inodes
              /\ UNCHANGED loc
              /\ Goto(p, "loop")
         ELSE /\ UNCHANGED inodes
              /\ WriteFailed(p)

----------------------------------------------------------------------------
(* The retry loop of lockfile_try_create                                   *)

\* the slip of leaving the cap out
NextSleepNoCap(sleeptime) == sleeptime + SLEEP_STEP

\* sleeptime += 5; if (sleeptime > 60) sleeptime = 60
NextSleep(sleeptime) ==
    IF sleeptime + SLEEP_STEP > SLEEP_MAX THEN SLEEP_MAX ELSE sleeptime + SLEEP_STEP

\* for (...; i < tries && tries > 0; ...), then the sleep of the iteration
LoopTop(p) ==
    /\ pc[p] = "loop"
    /\ UNCHANGED <<fs, inodes, env, atimeUpd>>
    /\ LET l == loc[p] IN
       IF l.i < l.tries /\ l.tries > 0
       THEN /\ IF l.dontsleep = 0
               THEN /\ loc' = [loc EXCEPT ![p] =
                                 [l EXCEPT !.sleeptime = NextSleep(@),
                                           !.sleeps = @ + 1]]
                    /\ clock' = clock + NextSleep(l.sleeptime)
               ELSE /\ loc' = [loc EXCEPT ![p].dontsleep = 0]
                    /\ UNCHANGED clock
            /\ Goto(p, "link")
       ELSE /\ loc' = [loc EXCEPT ![p].rc = LOCK_ERR_MAXRETRIES]
            /\ UNCHANGED clock
            /\ Goto(p, "cleanup")

\* link(2): the outcomes
LinkOutcomes(f, from, to, e) ==
    IF from \notin DOMAIN f THEN {"ENOENT"}
    ELSE IF to \in DOMAIN f THEN {"EEXIST"}
    ELSE IF e = "nolink" THEN {"ok", "EPERM"}
    ELSE {"ok"}

\* (void)link(tmplock_buf, lockfile)
Link(p) ==
    /\ pc[p] = "link"
    /\ UNCHANGED <<inodes, clock, env, atimeUpd>>
    /\ \E r \in LinkOutcomes(fs, loc[p].tmplock, LockFile, env) :
         /\ fs' = IF r = "ok" THEN fs @@ (LockFile :> fs[loc[p].tmplock]) ELSE fs
         /\ loc' = [loc EXCEPT ![p] =
                      [@ EXCEPT !.iters = @ + 1,
                                !.linked = @ \/ r = "ok"]]
    /\ Goto(p, "lstat_tmp")

\* if (lstat(tmplock_buf, &st1) < 0) return LOCK_ERR_GENERIC
LstatTmp(p) ==
    /\ pc[p] = "lstat_tmp"
    /\ UNCHANGED <<fs, inodes, clock, env, atimeUpd>>
    /\ IF loc[p].tmplock \notin DOMAIN fs
       THEN /\ loc' = [loc EXCEPT ![p].rc = LOCK_ERR_GENERIC]
            /\ Return(p, "create", LOCK_ERR_GENERIC, LockFile)
       ELSE /\ loc' = [loc EXCEPT ![p].st1 = Stat(fs, inodes, loc[p].tmplock)]
            /\ Goto(p, "lstat_lock")

\* See if we got the lock
SameFile(st, st1) == st.st_rdev = st1.st_rdev /\ st.st_ino = st1.st_ino

\* the slip of giving up one failure earlier
StatFailedSixth(statfailed) == statfailed >= STATFAIL_MAX

\* if (statfailed++ > 5)
StatFailedTooOften(statfailed) == statfailed > STATFAIL_MAX

\* lstat(lockfile, &st) and what the code concludes from it
LstatLock(p) ==
    /\ pc[p] = "lstat_lock"
    /\ UNCHANGED <<fs, inodes, clock, env, atimeUpd>>
    /\ LET l == loc[p] IN
       IF LockFile \notin DOMAIN fs
       THEN IF StatFailedTooOften(l.statfailed)
            THEN /\ loc' = [loc EXCEPT ![p] =
                              [l EXCEPT !.statfailed = @ + 1,
                                        !.rc = LOCK_ERR_MAXRETRIES]]
                 /\ Goto(p, "cleanup")
            ELSE /\ loc' = [loc EXCEPT ![p] =
                              [l EXCEPT !.statfailed = @ + 1, !.i = @ + 1,
                                        !.last = "failed"]]
                 /\ Goto(p, "loop")
       ELSE LET st == Stat(fs, inodes, LockFile) IN
            IF SameFile(st, l.st1)
            THEN /\ loc' = [loc EXCEPT ![p] = [l EXCEPT !.st = st, !.rc = 0]]
                 /\ Goto(p, "cleanup")
            ELSE /\ loc' = [loc EXCEPT ![p] = [l EXCEPT !.st = st, !.statfailed = 0]]
                 /\ Goto(p, "check")

----------------------------------------------------------------------------
(* lockfile_check_valid                                                    *)

\* read(fd, buf, sizeof(buf)) of a file of the given size
ReadLen(size) == Min(size, BUF_SIZE)

\* the reference time: st.st_atime, the access time taken before the read,
\* when the two fstat calls differ in it, else the wall clock read earlier
RefNow(wall, opened, st, st2) ==
    IF opened /\ st.st_atime # st2.st_atime THEN st.st_atime ELSE wall

\* n with its lowest byte set to 0
ZeroLowByte(n) == n - (n % 256)

\* buf[len] = 0.  When the read filled the buffer, len is sizeof(buf) and the
\* store goes to the byte behind buf: that byte belongs to nothing that is
\* read afterwards, or it is the first byte of now (pid, the one other local
\* read afterwards, is assigned after the store).  The values now may hold
\* after the store.
StoreOutcomes(len, now) ==
    IF len > 0 /\ len >= BUF_SIZE THEN {now, ZeroLowByte(now)} ELSE {now}

\* pid = atoi(buf) when something was read; content is the leading number
Atoi(len, content) == IF len > 0 THEN content ELSE 0

\* the slip of leaving the five minutes out
AgeValidNoGrace(now, st) == now < st.st_mtime

\* Without a pid in the lockfile, the lock is valid if it is newer than 5 mins
AgeValid(now, st) == now < st.st_mtime + VALID_AGE

\* the slip of letting the probe decide alone
CheckValidProbeOnly(pid, now, st) == pid > 0 /\ Kill(pid) \in {"ok", "EPERM"}

\* the slip of not telling ESRCH from the other failures of the probe
CheckValidNoEsrch(pid, now, st) ==
    IF pid > 0 /\ Kill(pid) \in {"ok", "EPERM"} THEN TRUE
    ELSE AgeValid(now, st)

\* the verdict, from the pid read, the probe and the age
CheckValid(pid, now, st) ==
    IF pid > 0 /\ Kill(pid) \in {"ok", "EPERM"} THEN TRUE
    ELSE IF pid > 0 /\ Kill(pid) = "ESRCH" THEN FALSE
    ELSE AgeValid(now, st)

\* stat(lockfile, &st) < 0: return false; else time(&now)
CheckStat(p) ==
    /\ pc[p] = "check"
    /\ UNCHANGED <<fs, inodes, clock, env, atimeUpd>>
    /\ IF LockFile \notin DOMAIN fs
       THEN /\ loc' = [loc EXCEPT ![p].sawinvalid = TRUE]
            /\ Goto(p, "rmstale")
       ELSE /\ loc' = [loc EXCEPT ![p] =
                         [@ EXCEPT !.st = Stat(fs, inodes, LockFile), !.now = clock]]
            /\ Goto(p, "read")

\* open, fstat, read, fstat, close, atoi, kill and the verdict: all of them
\* act on the one file the open found
CheckRead(p) ==
    /\ pc[p] = "read"
    /\ UNCHANGED <<fs, clock, env, atimeUpd>>
    /\ LET l      == loc[p]
           opened == LockFile \in DOMAIN fs
           st     == IF opened THEN Stat(fs, inodes, LockFile) ELSE l.st
           len    == IF opened THEN ReadLen(inodes[fs[LockFile]].size) ELSE 0
           st2    == IF opened /\ atimeUpd THEN [st EXCEPT !.st_atime = clock] ELSE st
           pid    == IF opened THEN Atoi(len, inodes[fs[LockFile]].pid) ELSE 0
       IN  /\ inodes' = IF opened
                        THEN [inodes EXCEPT ![fs[LockFile]].atime = st2.st_atime]
                        ELSE inodes
           /\ \E now \in StoreOutcomes(len, RefNow(l.now, opened, st, st2)) :
                LET seen == [l EXCEPT !.st = st, !.now = now, !.pid = pid,
                                      !.len = len]
                IN  IF CheckValid(pid, now, st)
                    THEN /\ loc' = [loc EXCEPT ![p] =
                                      [seen EXCEPT !.i = @ + 1, !.last = "valid"]]
                         /\ Goto(p, "loop")
                    ELSE /\ loc' = [loc EXCEPT ![p] =
                                      [seen EXCEPT !.sawinvalid = TRUE]]
                         /\ Goto(p, "rmstale")

\* the slip of granting the extra try whatever the number of tries
ExtendTriesAlways(tries) == tries + 1

\* if (tries == 1) tries++
ExtendTries(tries) == IF tries = 1 THEN tries + 1 ELSE tries

\* the lock was found invalid: unlink(lockfile) and go round again
RmStale(p) ==
    /\ pc[p] = "rmstale"
    /\ UNCHANGED <<clock, env, atimeUpd>>
    /\ IF UnlinkErr(fs, inodes, LockFile) \notin {"ok", "ENOENT"}
       THEN /\ UNCHANGED <<fs, inodes>>
            /\ loc' = [loc EXCEPT ![p].rc = LOCK_ERR_RMSTALE]
            /\ Return(p, "create", LOCK_ERR_RMSTALE, LockFile)
       ELSE /\ fs' = UnlinkFs(fs, inodes, LockFile)
            /\ inodes' = Prune(fs', inodes)
            /\ loc' = [loc EXCEPT ![p] =
                         [@ EXCEPT !.dontsleep = 1,
                                   !.tries = ExtendTries(@),
                                   !.i = @ + 1,
                                   !.last = IF UnlinkErr(fs, inodes, LockFile) = "ok"
                                            THEN "removed" ELSE "gone"]]
            /\ Goto(p, "loop")

\* (void)unlink(tmplock_buf); return rc
Cleanup(p) ==
    /\ pc[p] = "cleanup"
    /\ UNCHANGED <<clock, env, atimeUpd, loc>>
    /\ fs' = UnlinkFs(fs, inodes, loc[p].tmplock)
    /\ inodes' = Prune(fs', inodes)
    /\ Return(p, "create", loc[p].rc, LockFile)

----------------------------------------------------------------------------
(* ap_lockfile_release                                                     *)

\* the slip of not excusing ENOENT
ReleaseRcStrict(f, tbl, lockfile) ==
    IF lockfile = NoFile THEN UNLOCK_ERR_GENERIC
    ELSE IF UnlinkErr(f, tbl, lockfile) # "ok" THEN UNLOCK_ERR_GENERIC
    ELSE 0

\* unlink(lockfile) < 0 && errno != ENOENT: UNLOCK_ERR_GENERIC
ReleaseRc(f, tbl, lockfile) ==
    IF lockfile = NoFile THEN UNLOCK_ERR_GENERIC
    ELSE IF UnlinkErr(f, tbl, lockfile) \notin {"ok", "ENOENT"} THEN UNLOCK_ERR_GENERIC
    ELSE 0

ReleaseFs(f, tbl, lockfile) ==
    IF lockfile = NoFile THEN f ELSE UnlinkFs(f, tbl, lockfile)

\* processes that race call release only for a lock they hold
Release(p) ==
    /\ pc[p] = "idle"
    /\ Count(p, "release") < MaxRelease
    /\ Lone \/ Holds(p)
    /\ UNCHANGED <<clock, env, atimeUpd, loc>>
    /\ \E lockfile \in {NoFile, LockFile} :
         /\ fs' = ReleaseFs(fs, inodes, lockfile)
         /\ inodes' = Prune(fs', inodes)
         /\ Return(p, "release", ReleaseRc(fs, inodes, lockfile), lockfile)

----------------------------------------------------------------------------
(* The environment                                                         *)

\* somebody outside the protocol deletes a temp file
ThirdParty ==
    /\ env = "thirdparty"
    /\ \E name \in DOMAIN fs \ {LockFile} :
         /\ fs' = RemoveName(fs, name)
         /\ inodes' = Prune(fs', inodes)
    /\ UNCHANGED <<clock, env, atimeUpd, pc, loc, calls>>

Next ==
    \/ \E p \in Procs :
         \/ Create(p)
         \/ WriteTmp(p)
         \/ LoopTop(p)
         \/ Link(p)
         \/ LstatTmp(p)
         \/ LstatLock(p)
         \/ CheckStat(p)
         \/ CheckRead(p)
         \/ RmStale(p)
         \/ Cleanup(p)
         \/ Release(p)
    \/ ThirdParty

Spec == Init /\ [][Next]_vars

----------------------------------------------------------------------------
(* The protocol run by two processes with wide pids, from every value of    *)
(* the time digit                                                          *)

InitNames ==
    /\ clock \in Clock0..(Clock0 + 15)
    /\ env = "sound"
    /\ atimeUpd = FALSE
    /\ fs = EmptyFn
    /\ inodes = EmptyFn
    /\ \E pair \in {S \in SUBSET WideProcs : Cardinality(S) = 2} :
         /\ pc = [p \in WideProcs |-> IF p \in pair THEN "idle" ELSE "off"]
         /\ loc = [p \in WideProcs |-> LocInit]
         /\ calls = [p \in WideProcs |-> << >>]

NextNames ==
    \E p \in WideProcs :
        \/ Create(p)
        \/ WriteTmp(p)
        \/ LoopTop(p)
        \/ Link(p)
        \/ LstatTmp(p)
        \/ LstatLock(p)
        \/ CheckStat(p)
        \/ CheckRead(p)
        \/ RmStale(p)
        \/ Cleanup(p)
        \/ Release(p)

SpecNames == InitNames /\ [][NextNames]_vars

----------------------------------------------------------------------------
(* Vocabulary of the properties                                            *)

\* p is back from a call of op and has made no other call since
Returned(p, op) ==
    /\ pc[p] = "idle"
    /\ calls[p] # << >>
    /\ LastCall(p)[1] = op

\* this step is the return of a call of op by p
Returns(p, op) ==
    /\ Len(calls'[p]) = Len(calls[p]) + 1
    /\ calls'[p][Len(calls'[p])][1] = op

\* what that call returns
Result(p) == calls'[p][Len(calls'[p])][2]

\* p is back from ap_lockfile_create(LockFile, pid, retries >= 1)
CreateReturned(p) ==
    /\ Returned(p, "create")
    /\ LastCall(p)[3] = LockFile
    /\ loc[p].retries >= 1

\* the lock file of an outside process that the probe reports alive; only
\* the initial state puts such a file there, so it was there all along
HeldByLive ==
    /\ LockFile \in DOMAIN fs
    /\ inodes[fs[LockFile]].pid \in DOMAIN Outside
    /\ Outside[inodes[fs[LockFile]].pid] \in {"ok", "EPERM"}

\* the call of p began with a removable lock in place that satisfies Q
Found(p, Q(_)) == \E lk \in loc[p].found : lk.removable /\ Q(lk)

IsDead(lk) == lk.pid > 0 /\ Kill(lk.pid) = "ESRCH"

----------------------------------------------------------------------------
(* C1, C2: ownership and exclusion when processes race                     *)

\* C1: whenever ap_lockfile_create returns 0 to a process, in runs where
\* nobody has called release, the lock path exists at that moment and is
\* the file this process created as its temp file (the inode it saw by
\* lstat, carrying its pid).
C1_OwnedAtReturn ==
    [][\A p \in Procs :
         ( /\ Returns(p, "create")
           /\ Result(p) = 0
           /\ \A q \in Procs : Count(q, "release") = 0 )
         => /\ LockFile \in DOMAIN fs'
            /\ fs'[LockFile] = loc[p].st1.st_ino
            /\ inodes'[fs'[LockFile]].pid = p]_vars

\* C2: at most one process at a time has been told it has the lock and has
\* not released it since.
C2_AtMostOneHolder == Cardinality({p \in Procs : Holds(p)}) <= 1

----------------------------------------------------------------------------
(* C3: a lock held by a live process                                       *)

\* C3 as claimed: with the lock of a live outside process in place all
\* along, ap_lockfile_create(lockfile, pid, retries >= 1) never returns 0
\* and, where nothing else goes wrong, returns LOCK_ERR_MAXRETRIES after at
\* most retries calls of link().
C3_WithinRetriesTries ==
    \A p \in Procs :
        (CreateReturned(p) /\ HeldByLive)
        => /\ LastCall(p)[2] # 0
           /\ env = "sound" => /\ LastCall(p)[2] = LOCK_ERR_MAXRETRIES
                               /\ loc[p].iters <= loc[p].retries

\* C3 amended: the same call never returns 0; whenever it returns
\* LOCK_ERR_MAXRETRIES it has called link() exactly retries + 1 times, and
\* where nothing else goes wrong that is what it returns.
C3_AfterRetriesPlusOne ==
    \A p \in Procs :
        (CreateReturned(p) /\ HeldByLive)
        => /\ LastCall(p)[2] # 0
           /\ LastCall(p)[2] = LOCK_ERR_MAXRETRIES => loc[p].iters = loc[p].retries + 1
           /\ env = "sound" => LastCall(p)[2] = LOCK_ERR_MAXRETRIES

C3_Witness ==
    \E p \in Procs :
        /\ CreateReturned(p) /\ HeldByLive
        /\ LastCall(p)[2] = LOCK_ERR_MAXRETRIES
        /\ loc[p].retries = 2 /\ loc[p].iters = 3

----------------------------------------------------------------------------
(* C4: the lock of a dead process                                          *)

\* C4: a lone caller that finds the removable lock of a dead process, with
\* nothing else going wrong, gets 0 from ap_lockfile_create(lockfile, pid,
\* retries >= 1) after exactly two calls of link() and without any sleep,
\* and the lock path then is its own file.
C4_StaleReclaimedInTwo ==
    \A p \in Procs :
        (Lone /\ env = "sound" /\ CreateReturned(p) /\ Found(p, IsDead))
        => /\ LastCall(p)[2] = 0
           /\ loc[p].iters = 2
           /\ loc[p].sleeptime = 0
           /\ LockFile \in DOMAIN fs /\ inodes[fs[LockFile]].pid = p

C4_Witness ==
    \E p \in Procs :
        /\ Lone /\ env = "sound" /\ CreateReturned(p) /\ Found(p, IsDead)
        /\ LastCall(p)[2] = 0 /\ loc[p].iters = 2 /\ loc[p].retries = 1

----------------------------------------------------------------------------
(* C5: a lock without a pid                                                *)

IsOldNoPid(lk) == lk.pid = 0 /\ lk.mtime + 300 < Clock0

----------------------------------------------------------------------------
(* C6, C7, C8: what a call leaves on disk                                  *)

\* C6: after a lone caller's ap_lockfile_create(lockfile, pid, retries >= 1)
\* followed at once by ap_lockfile_release(lockfile), with nothing going
\* wrong around them, neither the lock path nor the temp path of the call
\* exists.
C6_NothingLeftAfterRelease ==
    \A p \in Procs :
        ( /\ Lone /\ env = "sound"
          /\ Returned(p, "release") /\ LastCall(p)[3] = LockFile
          /\ Len(calls[p]) >= 2
          /\ calls[p][Len(calls[p]) - 1][1] = "create"
          /\ calls[p][Len(calls[p]) - 1][3] = LockFile
          /\ loc[p].retries >= 1 )
        => /\ LockFile \notin DOMAIN fs
           /\ loc[p].tmplock \notin DOMAIN fs

\* C7: once ap_lockfile_create has returned LOCK_ERR_TMPWRITE,
\* LOCK_ERR_MAXRETRIES, LOCK_ERR_RMSTALE or LOCK_ERR_GENERIC from a call
\* that created its temp file, that temp file is not on disk.
C7_FailureUnlinksTemp ==
    \A p \in Procs :
        ( /\ Returned(p, "create")
          /\ loc[p].created
          /\ LastCall(p)[2] \in {LOCK_ERR_TMPWRITE, LOCK_ERR_MAXRETRIES,
                                 LOCK_ERR_RMSTALE, LOCK_ERR_GENERIC} )
        => loc[p].tmplock \notin DOMAIN fs

\* C8 as claimed: once ap_lockfile_create has returned LOCK_ERR_TMPWRITE or
\* LOCK_ERR_TMPLOCK, no file is at the temp path it computed.
C8_NoFileAtTempPath ==
    \A p \in Procs :
        ( /\ Returned(p, "create")
          /\ LastCall(p)[2] \in {LOCK_ERR_TMPWRITE, LOCK_ERR_TMPLOCK} )
        => loc[p].tmplock \notin DOMAIN fs

\* C8 amended: when ap_lockfile_create returns LOCK_ERR_TMPWRITE no file is
\* at its temp path; when it returns LOCK_ERR_TMPLOCK it has created no file
\* and the directory is as the call found it, so a file at the temp path is
\* one that was there before the call.
C8_TempPathAsFound ==
    [][\A p \in Procs :
         /\ (Returns(p, "create") /\ Result(p) = LOCK_ERR_TMPWRITE)
            => loc'[p].tmplock \notin DOMAIN fs'
         /\ (Returns(p, "create") /\ Result(p) = LOCK_ERR_TMPLOCK)
            => (~loc'[p].created /\ fs' = fs /\ inodes' = inodes)]_vars

C8_Witness ==
    \E p \in Procs :
        /\ Returned(p, "create")
        /\ LastCall(p)[2] = LOCK_ERR_TMPWRITE
        /\ loc[p].created
        /\ loc[p].tmplock \notin DOMAIN fs

----------------------------------------------------------------------------
(* C9, C10: release, and retries = 0                                       *)

\* C9: ap_lockfile_release(lockfile) on a path that does not exist returns 0
\* and changes nothing; a second release right after any release returns
\* what the first returned and leaves the directory as the first left it;
\* the call returns UNLOCK_ERR_GENERIC only when the path exists and its
\* unlink fails.
C9_ReleaseIdempotent ==
    [][\A p \in Procs :
         (Returns(p, "release") /\ calls'[p][Len(calls'[p])][3] = LockFile)
         => /\ LockFile \notin DOMAIN fs
               => (Result(p) = 0 /\ fs' = fs /\ inodes' = inodes)
            /\ ReleaseRc(fs', inodes', LockFile) = Result(p)
            /\ ReleaseFs(fs', inodes', LockFile) = fs'
            /\ (Returned(p, "release") /\ LastCall(p)[3] = LockFile /\ Lone)
               => (Result(p) = LastCall(p)[2] /\ fs' = fs /\ inodes' = inodes)
            /\ Result(p) = UNLOCK_ERR_GENERIC
               <=> (LockFile \in DOMAIN fs /\ ~inodes[fs[LockFile]].removable)]_vars

C9_Witness ==
    \E p \in Procs :
        /\ Len(calls[p]) = 3
        /\ calls[p][1] = <<"create", 0, LockFile>>
        /\ calls[p][2] = <<"release", 0, LockFile>>
        /\ calls[p][3] = <<"release", 0, LockFile>>
        /\ LockFile \notin DOMAIN fs

\* C10: ap_lockfile_create with retries = 0 returns LOCK_ERR_GENERIC in the
\* step of the call itself, and that step leaves the directory and every
\* inode (access times included) as they were.
C10_ZeroRetriesTouchesNothing ==
    [][\A p \in Procs :
         ( /\ pc[p] = "idle"
           /\ pc'[p] = "write" \/ Returns(p, "create")
           /\ loc'[p].retries = 0 )
         => /\ Returns(p, "create")
            /\ Result(p) = LOCK_ERR_GENERIC
            /\ fs' = fs
            /\ inodes' = inodes]_vars

C10_Witness ==
    \E p \in Procs :
        /\ Returned(p, "create")
        /\ LastCall(p) = <<"create", LOCK_ERR_GENERIC, LockFile>>
        /\ loc[p].retries = 0
        /\ LockFile \in DOMAIN fs

----------------------------------------------------------------------------
(* One long call, while outside processes take and drop the lock           *)

\* the retries arguments of a long call: just enough for the lstat of the
\* lock to fail too often, and enough for the sleep to reach its cap
LongRetryArgs == {STATFAIL_MAX + 1, LongRetries}

CreateLong(p) ==
    /\ Count(p, "create") < 1
    /\ \E retries \in LongRetryArgs : CreateCall(p, LockFile, retries)

\* an outside process takes the free lock; the dead one dies holding it
OutsideTake ==
    /\ LockFile \notin DOMAIN fs
    /\ \E q \in {LivePid, DeadPid} :
         /\ fs' = fs @@ (LockFile :> FreeIno(fs))
         /\ inodes' = inodes @@ (FreeIno(fs) :> Inode(q, PidLen(q), clock, TRUE))
    /\ UNCHANGED <<clock, env, atimeUpd, pc, loc, calls>>

\* the live outside process releases its lock
OutsideDrop ==
    /\ LockFile \in DOMAIN fs
    /\ inodes[fs[LockFile]].pid = LivePid
    /\ fs' = RemoveName(fs, LockFile)
    /\ inodes' = Prune(fs', inodes)
    /\ UNCHANGED <<clock, env, atimeUpd, pc, loc, calls>>

InitLong ==
    /\ clock = Clock0
    /\ env \in {"sound", "nolink"}
    /\ atimeUpd = FALSE
    /\ fs = EmptyFn
    /\ inodes = EmptyFn
    /\ pc = [p \in Procs |-> IF p = First THEN "idle" ELSE "off"]
    /\ loc = [p \in Procs |-> LocInit]
    /\ calls = [p \in Procs |-> << >>]

NextLong ==
    \/ \E p \in Procs :
         \/ CreateLong(p)
         \/ WriteTmp(p)
         \/ LoopTop(p)
         \/ Link(p)
         \/ LstatTmp(p)
         \/ LstatLock(p)
         \/ CheckStat(p)
         \/ CheckRead(p)
         \/ RmStale(p)
         \/ Cleanup(p)
    \/ OutsideTake
    \/ OutsideDrop

SpecLong == InitLong /\ [][NextLong]_vars

----------------------------------------------------------------------------
(* A race of processes that take the lock again after they released it     *)

CreateAgain(p) ==
    /\ Count(p, "create") < MaxAgain
    /\ CreateCall(p, LockFile, 1)

InitAgain ==
    /\ clock = Clock0
    /\ loc = [p \in Procs |-> LocInit]
    /\ calls = [p \in Procs |-> << >>]
    /\ InitRace

NextAgain ==
    \E p \in Procs :
        \/ CreateAgain(p)
        \/ WriteTmp(p)
        \/ LoopTop(p)
        \/ Link(p)
        \/ LstatTmp(p)
        \/ LstatLock(p)
        \/ CheckStat(p)
        \/ CheckRead(p)
        \/ RmStale(p)
        \/ Cleanup(p)
        \/ Release(p)

SpecAgain == InitAgain /\ [][NextAgain]_vars

----------------------------------------------------------------------------
(* lockfile_check_valid alone, on every kind of lock file                  *)

\* lock files that fill the read buffer or are longer than it
BigLock0s ==
    {Inode(q, BUF_SIZE + d, Clock0 - a, TRUE) :
        q \in {0, LivePid, OddPid}, d \in {0, 1}, a \in {10, 301}}

\* a lock file that was read some time after it was written
ReadBefore(lk) == [lk EXCEPT !.atime = Min(@ + 5, Clock0)]

\* the call of lockfile_check_valid in the first iteration of
\* ap_lockfile_create(lockfile, pid, 1): the temp file is written, link()
\* failed, lstat() showed another file than the temp file at the lock path;
\* that file is still there, or has just been removed
InitCheck ==
    /\ clock = Clock0
    /\ env = "sound"
    /\ atimeUpd \in BOOLEAN
    /\ calls = [p \in Procs |-> << >>]
    /\ pc = [p \in Procs |-> IF p = First THEN "check" ELSE "off"]
    /\ \E lk \in Lock0s \cup BigLock0s, lk0 \in BOOLEAN, gone \in BOOLEAN :
         LET lock == IF lk0 THEN lk ELSE ReadBefore(lk)
             tmp  == TmpName(First, Clock0)
             f    == (LockFile :> 1) @@ (tmp :> 2)
             tbl  == (1 :> lock) @@ (2 :> Inode(First, PidLen(First), Clock0, TRUE))
         IN  /\ fs = IF gone THEN RemoveName(f, LockFile) ELSE f
             /\ inodes = Prune(fs, tbl)
             /\ loc = [p \in Procs |->
                         IF p = First
                         THEN [LocInit EXCEPT !.tmplock = tmp, !.retries = 1,
                                              !.tries = Tries(1), !.dontsleep = 0,
                                              !.st1 = Stat(f, tbl, tmp),
                                              !.st = Stat(f, tbl, LockFile),
                                              !.iters = 1, !.created = TRUE,
                                              !.found = {lock}]
                         ELSE LocInit]

\* the holder of the lock removes it
HolderDrop ==
    /\ LockFile \in DOMAIN fs
    /\ fs' = RemoveName(fs, LockFile)
    /\ inodes' = Prune(fs', inodes)
    /\ UNCHANGED <<clock, env, atimeUpd, pc, loc, calls>>

NextCheck ==
    \/ \E p \in Procs :
         \/ CheckStat(p)
         \/ CheckRead(p)
    \/ HolderDrop

SpecCheck == InitCheck /\ [][NextCheck]_vars

----------------------------------------------------------------------------
(* C11, C17: the temp name                                                 *)

\* C11: two processes with different pids never compute the same temp name
\* for the same lock path, whatever the width of their pids and the time
\* digit of their calls.
C11_DistinctTempNames ==
    \A p, q \in DOMAIN pc :
        (p # q /\ loc[p].tmplock # << >> /\ loc[q].tmplock # << >>)
        => loc[p].tmplock # loc[q].tmplock

\* C17: tmplock_filename never succeeds with a name cut short: a call that
\* went on to open its temp file holds the whole composed name (lock path,
\* extension, decimal pid, hex digit).
C17_NeverTruncated ==
    \A p \in DOMAIN pc :
        loc[p].tmplock # << >>
        => Len(loc[p].tmplock) = Len(tmplock_composed(LockFile, p, 0))

----------------------------------------------------------------------------
(* C12: the retry budget after a stale lock was removed                    *)

----------------------------------------------------------------------------
(* C13: the lstat of the lock path fails again and again                   *)

\* this step is the lstat(lockfile) of p and it fails
LstatLockFails(p) ==
    pc[p] = "lstat_lock" /\ pc'[p] # "lstat_lock" /\ LockFile \notin DOMAIN fs

\* the failures in a row once this one is counted
FailuresInARow(p) == loc[p].statfailed + 1

\* C13 as claimed: the 6th failure in a row of lstat(lockfile) makes the
\* call give up with LOCK_ERR_MAXRETRIES, 5 or fewer lead to the next
\* iteration.
C13_GivesUpOnSixth ==
    [][\A p \in Procs :
         LstatLockFails(p)
         => /\ FailuresInARow(p) >= 6
               => (pc'[p] = "cleanup" /\ loc'[p].rc = LOCK_ERR_MAXRETRIES)
            /\ FailuresInARow(p) <= 5 => pc'[p] = "loop"]_vars

\* C13 amended: the 7th failure in a row of lstat(lockfile) makes the call
\* give up: it makes no further link(), unlinks its temp file and returns
\* LOCK_ERR_MAXRETRIES; 6 or fewer failures in a row lead to the next
\* iteration, each using up one iteration of the budget; an lstat that
\* succeeds and shows somebody else's file sets the count back to 0.
C13_GivesUpOnSeventh ==
    [][\A p \in Procs :
         /\ LstatLockFails(p)
            => /\ FailuresInARow(p) >= 7
                  => (pc'[p] = "cleanup" /\ loc'[p].rc = LOCK_ERR_MAXRETRIES)
               /\ FailuresInARow(p) <= 6
                  => (pc'[p] = "loop" /\ loc'[p].i = loc[p].i + 1)
               /\ loc'[p].statfailed = FailuresInARow(p)
         /\ (pc[p] = "lstat_lock" /\ pc'[p] = "check") => loc'[p].statfailed = 0
         /\ (pc[p] = "cleanup" /\ pc'[p] # "cleanup")
            => /\ Returns(p, "create") /\ Result(p) = loc[p].rc
               /\ loc[p].tmplock \notin DOMAIN fs'
               /\ loc'[p].iters = loc[p].iters]_vars

\* the 7th failure in a row, with iterations left, has ended the loop
C13_Witness ==
    \E p \in Procs :
        /\ pc[p] = "cleanup" /\ loc[p].last = "failed"
        /\ loc[p].statfailed = 7 /\ loc[p].iters = 7
        /\ loc[p].rc = LOCK_ERR_MAXRETRIES
        /\ loc[p].i < loc[p].tries - 1

----------------------------------------------------------------------------
(* C14: the sleeps                                                         *)

\* C14: the iteration that follows the start of the call, or an iteration
\* that found the lock invalid and left the lock path free (unlink returned
\* 0 or ENOENT), begins without sleep; every other iteration begins with a
\* sleep, and the k-th sleep of the call lasts min(5 * k, 60) seconds.
C14_BackoffSchedule ==
    [][\A p \in Procs :
         (pc[p] = "loop" /\ pc'[p] = "link")
         => IF loc[p].last \in {"start", "removed", "gone"}
            THEN clock' = clock /\ loc'[p].sleeps = loc[p].sleeps
            ELSE /\ loc'[p].sleeps = loc[p].sleeps + 1
                 /\ clock' - clock = Min(5 * loc'[p].sleeps, 60)]_vars

\* the 13th sleep, the second of 60 seconds, was made by a call that also
\* removed a stale lock on its way
C14_Witness ==
    \E p \in Procs :
        /\ pc[p] = "link" /\ loc[p].sleeps = 13 /\ loc[p].sleeptime = 60
        /\ loc[p].sawinvalid /\ loc[p].iters = 14

----------------------------------------------------------------------------
(* C15, C16, C20: lockfile_check_valid                                     *)

\* this step is the end of lockfile_check_valid for p, after its read
CheckEnds(p) == pc[p] = "read" /\ pc'[p] # "read"

\* C15: when lockfile_check_valid read a pid > 0 from the lock file, the
\* lock is valid whatever its age if kill(pid, 0) returns 0 or fails with
\* EPERM, stale whatever its age if it fails with ESRCH, and for any other
\* failure valid exactly when the reference time of the function is less
\* than 300 seconds after the file's mtime; a lock path that stat() fails
\* on is not valid.
C15_ThreeWayProbe ==
    [][\A p \in Procs :
         /\ (CheckEnds(p) /\ loc'[p].pid > 0)
            => LET valid == pc'[p] = "loop"
                   probe == Kill(loc'[p].pid)
                   age   == loc'[p].now - loc'[p].st.st_mtime
               IN  /\ probe \in {"ok", "EPERM"} => valid
                   /\ probe = "ESRCH" => (~valid /\ pc'[p] = "rmstale")
                   /\ probe \notin {"ok", "EPERM", "ESRCH"}
                      => /\ valid <=> age < 300
                         /\ ~valid => pc'[p] = "rmstale"
         /\ (pc[p] = "check" /\ pc'[p] # "check" /\ LockFile \notin DOMAIN fs)
            => pc'[p] = "rmstale"]_vars

\* a probe that failed with neither EPERM nor ESRCH left the verdict to the
\* age, and the lock is stale
C15_Witness ==
    \E p \in Procs :
        /\ pc[p] = "rmstale" /\ loc[p].pid = OddPid
        /\ loc[p].now - loc[p].st.st_mtime >= 300
        /\ LockFile \in DOMAIN fs

\* C16: when the atime of the lock file after the read differs from the
\* atime before the read, the reference time of lockfile_check_valid is
\* the atime after the read; else it is the wall clock read before the
\* open.  (For a read that stayed inside the buffer.)
C16_AtimeAfterRead ==
    [][\A p \in Procs :
         (CheckEnds(p) /\ LockFile \in DOMAIN fs /\ loc'[p].len < BUF_SIZE)
         => LET before == inodes[fs[LockFile]].atime
                after  == inodes'[fs[LockFile]].atime
            IN  loc'[p].now = IF after # before THEN after ELSE loc[p].now]_vars

\* C20: the terminator that follows the bytes read is stored inside buf:
\* its index, the number of bytes read, is less than sizeof(buf).
C20_TerminatorInsideBuf ==
    \A p \in Procs : loc[p].len > 0 => loc[p].len < BUF_SIZE

----------------------------------------------------------------------------
(* C18, C19: what a call that fails does to the lock path                  *)

\* C18: when ap_lockfile_create has returned anything but 0, the lock path
\* is not a file that this call linked there: no failed call leaves a lock
\* with the caller's pid behind.
C18_NoOrphanedLock ==
    \A p \in Procs :
        ( /\ Returned(p, "create")
          /\ LastCall(p)[2] # 0
          /\ loc[p].linked )
        => ~(LockFile \in DOMAIN fs /\ inodes[fs[LockFile]].pid = p)

\* this step is a step of a call of ap_lockfile_create by p
CreateStep(p) ==
    \/ pc[p] \notin {"idle", "off"} /\ pc'[p] # pc[p]
    \/ pc[p] = "idle" /\ (pc'[p] = "write" \/ Returns(p, "create"))

\* what is at the lock path: nothing, or the file and what it holds
LockEntry(f, tbl) ==
    IF LockFile \in DOMAIN f
    THEN {[ino |-> f[LockFile], pid |-> tbl[f[LockFile]].pid,
           size |-> tbl[f[LockFile]].size, mtime |-> tbl[f[LockFile]].mtime]}
    ELSE {}

\* C19: in a call of ap_lockfile_create in which lockfile_check_valid never
\* said false, no step of the call unlinks, replaces or modifies the file at
\* the lock path, and no step touches any name but the lock path and the
\* call's temp name; when such a call returns LOCK_ERR_MAXRETRIES, no link()
\* of it ever put a file at the lock path, so its temp file is the one entry
\* it created, and that entry is removed.
C19_ContendedFrame ==
    [][\A p \in Procs :
         (CreateStep(p) /\ ~loc'[p].sawinvalid)
         => /\ LockEntry(fs, inodes) # {}
               => LockEntry(fs', inodes') = LockEntry(fs, inodes)
            /\ \A nm \in (DOMAIN fs \cup DOMAIN fs') \ {LockFile, loc'[p].tmplock} :
                  nm \in DOMAIN fs /\ nm \in DOMAIN fs' /\ fs'[nm] = fs[nm]
            /\ (Returns(p, "create") /\ Result(p) = LOCK_ERR_MAXRETRIES)
               => /\ ~loc'[p].linked
                  /\ loc'[p].tmplock \notin DOMAIN fs']_vars

====
